---- MODULE Spec2Model ----
(***************************************************************************)
(* Shell environment bootstrap: loadShellEnv and loadDotEnv, both merging  *)
(* KEY=VALUE text into the process environment table (process.env).        *)
(*                                                                         *)
(* A JavaScript string is modelled as the sequence of its characters, so   *)
(* that split, trim, indexOf, substring, startsWith, endsWith, slice and   *)
(* join are computed character by character as the engine computes them.   *)
(* The environment table is a function from keys to values; a key that is  *)
(* not in its DOMAIN reads as undefined.                                   *)
(***************************************************************************)
EXTENDS Integers, Sequences, FiniteSets

(* ------------------------- bounds of the model ------------------------- *)
\* number of lines the shell prints after its startup banner
MaxLines == 2
\* number of lines of the .env file
MaxFileLines == 2

(* ------------------------- string literals ----------------------------- *)
MARKER == <<"_", "_", "E", "N", "V", "_", "S", "T", "A", "R", "T", "_", "_">>
VITE_PREFIX == <<"V", "I", "T", "E", "_">>
GATE == <<"V", "I", "T", "E", "_", "D", "E", "V", "_", "S", "E", "R", "V", "E", "R", "_", "U", "R", "L">>
K_PATH == <<"P", "A", "T", "H">>
K_HOME == <<"H", "O", "M", "E">>
UNDEFINED == <<"u", "n", "d", "e", "f", "i", "n", "e", "d">>
DEFAULT_PATH == <<"/", "u", "s", "r", "/", "b", "i", "n", ":", "/", "b", "i", "n", ":", "/", "u", "s", "r", "/", "s", "b", "i", "n", ":", "/", "s", "b", "i", "n">>
FB1 == <<"/", "o", "p", "t", "/", "h", "o", "m", "e", "b", "r", "e", "w", "/", "b", "i", "n">>
FB2 == <<"/", "o", "p", "t", "/", "h", "o", "m", "e", "b", "r", "e", "w", "/", "s", "b", "i", "n">>
FB3 == <<"/", "u", "s", "r", "/", "l", "o", "c", "a", "l", "/", "b", "i", "n">>
FB4 == <<"/", "u", "s", "r", "/", "l", "o", "c", "a", "l", "/", "s", "b", "i", "n">>
FB5 == <<"/", ".", "l", "o", "c", "a", "l", "/", "b", "i", "n">>
FB6 == <<"/", ".", "b", "u", "n", "/", "b", "i", "n">>
FB7 == <<"/", ".", "c", "a", "r", "g", "o", "/", "b", "i", "n">>
NL == <<"\n">>
COLON == <<":">>

(* ------------------------- String.prototype ---------------------------- *)
SetMin(S) == CHOOSE x \in S : \A y \in S : x <= y
SetMax(S) == CHOOSE x \in S : \A y \in S : x >= y

\* characters String.prototype.trim removes
IsWhite(c) == c \in {" ", "\n", "\t", "\r"}

trim(s) ==
  LET keep == {i \in 1..Len(s) : ~IsWhite(s[i])}
  IN  IF keep = {} THEN <<>> ELSE SubSeq(s, SetMin(keep), SetMax(keep))

\* 0-based index of the first occurrence of the string pat in s, or -1
indexOf(s, pat) ==
  LET hits == {i \in 1..(Len(s) - Len(pat) + 1) : SubSeq(s, i, i + Len(pat) - 1) = pat}
  IN  IF hits = {} THEN -1 ELSE SetMin(hits) - 1

\* s.substring(from, to) with 0 <= from <= to <= s.length
substring(s, from, to) == SubSeq(s, from + 1, to)

\* s.substring(from)
substringFrom(s, from) == SubSeq(s, from + 1, Len(s))

startsWith(s, p) == Len(s) >= Len(p) /\ SubSeq(s, 1, Len(p)) = p

endsWith(s, p) == Len(s) >= Len(p) /\ SubSeq(s, Len(s) - Len(p) + 1, Len(s)) = p

\* s.slice(1, -1)
slice(s) == SubSeq(s, 2, Len(s) - 1)

\* s.split(sep) for a non-empty separator: the list of pieces
RECURSIVE split(_, _)
split(s, sep) ==
  LET at == indexOf(s, sep)
  IN  IF at < 0 THEN <<s>>
      ELSE <<substring(s, 0, at)>> \o split(substringFrom(s, at + Len(sep)), sep)

\* list.join(sep)
RECURSIVE join(_, _)
join(list, sep) ==
  IF list = <<>> THEN <<>>
  ELSE IF Len(list) = 1 THEN list[1]
  ELSE list[1] \o sep \o join(Tail(list), sep)

\* arr.indexOf(x): 0-based index of the first element equal to x, or -1
arrIndexOf(arr, x) ==
  LET hits == {i \in 1..Len(arr) : arr[i] = x}
  IN  IF hits = {} THEN -1 ELSE SetMin(hits) - 1

\* the list with the filter left out
keepDuplicates(arr) == arr

\* arr.filter((p, i, arr) => arr.indexOf(p) === i)
dedupe(arr) ==
  LET F[i \in 0..Len(arr)] ==
        IF i = 0 THEN <<>>
        ELSE IF arrIndexOf(arr, arr[i]) = i - 1 THEN Append(F[i - 1], arr[i]) ELSE F[i - 1]
  IN  F[Len(arr)]

(* ------------------------- process.env --------------------------------- *)
\* process.env[k] is a non-empty string (absent and "" are both falsy)
Truthy(e, k) == k \in DOMAIN e /\ e[k] # <<>>

\* process.env[k] = v
Put(e, k, v) == [x \in (DOMAIN e) \cup {k} |-> IF x = k THEN v ELSE e[x]]

\* `${process.env[k]}`: an absent variable prints as the word undefined
Template(e, k) == IF k \in DOMAIN e THEN e[k] ELSE UNDEFINED

\* process.env[k] || dflt
OrDefault(e, k, dflt) == IF Truthy(e, k) THEN e[k] ELSE dflt

Range(q) == {q[i] : i \in DOMAIN q}

(* ------------------------- loadShellEnv -------------------------------- *)
\* the filter switched off
skipNothing(key) == FALSE

\* a slip in the prefix: it tests for the lower-case vite_
skipLowerCasePrefix(key) == startsWith(key, <<"v", "i", "t", "e", "_">>)

\* key.startsWith('VITE_')
shouldSkipEnvVar(key) == startsWith(key, VITE_PREFIX)

\* the dev-mode test both loaders make: process.env.VITE_DEV_SERVER_URL is truthy
devMode(e) == Truthy(e, GATE)

\* process.platform === 'darwin'
onDarwin(plat) == plat = "darwin"

\* the call gets as far as execSync
reachesExec(plat, e) == onDarwin(plat) /\ ~devMode(e)

\* execSync throws on a spawn error, a non-zero exit status and a timeout;
\* otherwise it returns the captured stdout
execSync(in) == [threw |-> in.outcome # "ok", stdout |-> in.stdout]

\* a handler that lets the timeout error through
catchesAllButTimeout(outcome) == outcome # "timeout"

\* `catch (error)` has no filter: every error thrown in the try block is caught
catches(outcome) == TRUE

\* a fallback to the whole output when the marker is missing
envSectionOrWhole(output) ==
  LET parts == split(output, MARKER)
  IN  IF Len(parts) >= 2 THEN parts[2] ELSE output

\* output.split('__ENV_START__')[1] || ''
envSection(output) ==
  LET parts == split(output, MARKER)
  IN  IF Len(parts) >= 2 THEN parts[2] ELSE <<>>

\* one iteration of the for loop over the lines of the env section
shellLine(acc, line) ==
  LET eq == indexOf(line, <<"=">>)
      key == substring(line, 0, eq)
      value == substringFrom(line, eq + 1)
  IN  IF eq > 0 /\ ~shouldSkipEnvVar(key)
      THEN [env |-> Put(acc.env, key, value),
            count |-> acc.count + 1,
            writes |-> Append(acc.writes, <<key, value>>)]
      ELSE acc

\* the try block after execSync returned: parse the section and set the variables
parseShellOutput(e, output) ==
  LET lines == split(trim(envSection(output)), NL)
      F[i \in 0..Len(lines)] ==
        IF i = 0 THEN [env |-> e, count |-> 0, writes |-> <<>>]
        ELSE shellLine(F[i - 1], lines[i])
  IN  F[Len(lines)]

\* the seven fallback directories, in their declared order
fallbackPaths(e) ==
  <<FB1, FB2, FB3, FB4,
    Template(e, K_HOME) \o FB5, Template(e, K_HOME) \o FB6, Template(e, K_HOME) \o FB7>>

\* process.env.PATH || '/usr/bin:/bin:/usr/sbin:/sbin'
currentPath(e) == OrDefault(e, K_PATH, DEFAULT_PATH)

\* [...fallbackPaths, ...currentPath.split(':')].filter(dedupe).join(':')
newPath(e) == join(dedupe(fallbackPaths(e) \o split(currentPath(e), COLON)), COLON)

\* the whole call: what it leaves in process.env, whether it returned or threw,
\* the branch it ended in, the count it logged and the pairs it wrote
loadShellEnv(plat, e, in) ==
  IF ~onDarwin(plat)
  THEN [env |-> e, status |-> "returned", branch |-> "platform", count |-> 0,
        writes |-> <<>>, invoked |-> FALSE]
  ELSE IF devMode(e)
  THEN [env |-> e, status |-> "returned", branch |-> "devmode", count |-> 0,
        writes |-> <<>>, invoked |-> FALSE]
  ELSE LET r == execSync(in)
       IN  IF r.threw
           THEN IF catches(in.outcome)
                THEN [env |-> Put(e, K_PATH, newPath(e)), status |-> "returned",
                      branch |-> "fallback", count |-> 0,
                      writes |-> <<<<K_PATH, newPath(e)>>>>, invoked |-> TRUE]
                ELSE [env |-> e, status |-> "threw", branch |-> "none", count |-> 0,
                      writes |-> <<>>, invoked |-> TRUE]
           ELSE LET p == parseShellOutput(e, r.stdout)
                IN  [env |-> p.env, status |-> "returned", branch |-> "parsed",
                     count |-> p.count, writes |-> p.writes, invoked |-> TRUE]

(* ------------------------- loadDotEnv ---------------------------------- *)
\* the first test inverted: the loader goes on when the variable is not set
dotEnvEnabledWhenUnset(e) == ~devMode(e)

\* the loader goes past its first test: process.env.VITE_DEV_SERVER_URL is truthy
dotEnvEnabled(e) == devMode(e)

\* only the double-quote pair removed
stripDoubleQuotesOnly(value) ==
  IF startsWith(value, <<"\"">>) /\ endsWith(value, <<"\"">>) THEN slice(value) ELSE value

\* "Remove quotes if present": same quote character first and last
stripQuotes(value) ==
  IF \/ startsWith(value, <<"\"">>) /\ endsWith(value, <<"\"">>)
     \/ startsWith(value, <<"'">>) /\ endsWith(value, <<"'">>)
  THEN slice(value)
  ELSE value

\* the assignment made without the test
alwaysWrite(e, key) == TRUE

\* if (!process.env[key])
mayWrite(e, key) == ~Truthy(e, key)

\* one iteration of the for loop over the lines of the file; n is the line's number
dotEnvLine(acc, line, n) ==
  LET trimmed == trim(line)
      eq == indexOf(trimmed, <<"=">>)
      key == trim(substring(trimmed, 0, eq))
      value == stripQuotes(trim(substringFrom(trimmed, eq + 1)))
  IN  IF trimmed = <<>> \/ startsWith(trimmed, <<"#">>) THEN acc
      ELSE IF eq > 0 /\ mayWrite(acc.env, key)
      THEN [env |-> Put(acc.env, key, value),
            count |-> acc.count + 1,
            writes |-> Append(acc.writes,
                              [line |-> n, key |-> key, value |-> value,
                               over |-> Truthy(acc.env, key)])]
      ELSE acc

\* the loop over envContent.split('\n')
parseDotEnv(e, content) ==
  LET lines == split(content, NL)
      F[i \in 0..Len(lines)] ==
        IF i = 0 THEN [env |-> e, count |-> 0, writes |-> <<>>]
        ELSE dotEnvLine(F[i - 1], lines[i], i)
  IN  F[Len(lines)]

\* the whole call; file.state is "absent" (existsSync false), "error"
\* (readFileSync throws) or "ok" (file.content is the text read)
loadDotEnv(e, file) ==
  IF ~dotEnvEnabled(e)
  THEN [env |-> e, status |-> "returned", branch |-> "gated", count |-> 0,
        writes |-> <<>>, invoked |-> FALSE]
  ELSE IF file.state = "absent"
  THEN [env |-> e, status |-> "returned", branch |-> "nofile", count |-> 0,
        writes |-> <<>>, invoked |-> TRUE]
  ELSE IF file.state = "error"
  THEN [env |-> e, status |-> "returned", branch |-> "readerror", count |-> 0,
        writes |-> <<>>, invoked |-> TRUE]
  ELSE LET p == parseDotEnv(e, file.content)
       IN  [env |-> p.env, status |-> "returned", branch |-> "parsed",
            count |-> p.count, writes |-> p.writes, invoked |-> TRUE]

(* ------------------------- inputs of the model ------------------------- *)
P_DUP == <<"/", "u", "s", "r", "/", "l", "o", "c", "a", "l", "/", "b", "i", "n", ":", "/", "b", "i", "n", ":", "/", "x", ":", "/", "b", "i", "n">>
H_H == <<"/", "h">>
K_FOO == <<"F", "O", "O">>
K_KEY == <<"K", "E", "Y">>
V_1 == <<"1">>
V_U == <<"u">>
L_FOO == <<"F", "O", "O", "=", "b", "a", "r">>
L_PATH == <<"P", "A", "T", "H", "=", "/", "a", ":", "/", "b">>
L_VITE == <<"V", "I", "T", "E", "_", "X", "=", "1">>
L_EQEQ == <<"A", "=", "b", "=", "c">>
L_NOEQ == <<"n", "o", "e", "q">>
L_EQ0 == <<"=", "x">>
L_MARK == <<"B", "=", "x", "_", "_", "E", "N", "V", "_", "S", "T", "A", "R", "T", "_", "_", "y">>
L_TRAIL == <<"K", "=", "v", " ">>
L_GATE == <<"V", "I", "T", "E", "_", "D", "E", "V", "_", "S", "E", "R", "V", "E", "R", "_", "U", "R", "L", "=", "u">>
BANNER == <<"h", "i", "\n", "X", "=", "1", "\n">>
F_FOO == <<"F", "O", "O", "=", "2">>
F_DQ == <<"K", "E", "Y", "=", "\"", "v", "a", "l", "u", "e", " ", "w", "i", "t", "h", " ", "s", "p", "a", "c", "e", "s", "\"">>
F_SQ == <<"K", "E", "Y", "=", "'", "a", "'", "b", "'">>
F_COMMENT == <<"#", " ", "c", "=", "1">>
F_SPACES == <<" ", "B", "A", "R", " ", "=", " ", "x", " ">>
F_VITE == <<"V", "I", "T", "E", "_", "Y", "=", "1">>
F_MIX == <<"Q", "=", "'", "a", "\"">>
F_EMPTY == <<"F", "O", "O", "=">>
F_ONEQ == <<"Z", "=", "\"">>

\* an optional variable: <<>> is "not set", <<v>> is "set to v"
PathOptions == {<<>>, <<<<>>>>, <<P_DUP>>}
HomeOptions == {<<>>, <<H_H>>}
FooOptions == {<<>>, <<<<>>>>, <<V_1>>}
GateOptions == {<<>>, <<<<>>>>, <<V_U>>}

\* the table the operating system hands to the process
MkEnv(path, home, foo, gate) ==
  LET opt == [k \in {K_PATH, K_HOME, K_FOO, GATE} |->
                IF k = K_PATH THEN path ELSE IF k = K_HOME THEN home
                ELSE IF k = K_FOO THEN foo ELSE gate]
  IN  [k \in {x \in DOMAIN opt : opt[x] # <<>>} |-> opt[k][1]]

InitEnvs ==
  {MkEnv(p, h, f, g) : p \in PathOptions, h \in HomeOptions, f \in FooOptions, g \in GateOptions}

Platforms == {"darwin", "linux"}

SeqsUpTo(S, n) == UNION {[1..k -> S] : k \in 0..n}

\* every line followed by a newline, as env prints them
RECURSIVE lineText(_)
lineText(ls) == IF ls = <<>> THEN <<>> ELSE ls[1] \o NL \o lineText(Tail(ls))

ShellLines == {L_FOO, L_PATH, L_VITE, L_EQEQ, L_NOEQ, L_EQ0, L_MARK, L_TRAIL, L_GATE}

\* what the shell may print: an optional startup banner, then either the output
\* of `echo __ENV_START__ && env` or (marker missing) the lines alone
Stdouts ==
  {b \o m \o lineText(ls) : b \in {<<>>, BANNER}, m \in {<<>>, MARKER \o NL},
                            ls \in SeqsUpTo(ShellLines, MaxLines)}

ShellInputs ==
  {[invoked |-> TRUE, outcome |-> o, stdout |-> <<>>] : o \in {"spawn_error", "nonzero_exit", "timeout"}}
    \cup {[invoked |-> TRUE, outcome |-> "ok", stdout |-> s] : s \in Stdouts}

NoShellInput == [invoked |-> FALSE, outcome |-> "none", stdout |-> <<>>]

FileLines == {F_FOO, F_DQ, F_SQ, F_COMMENT, F_SPACES, F_VITE, F_MIX, F_EMPTY, L_EQ0, F_ONEQ, <<>>}

FileInputs ==
  {[invoked |-> TRUE, state |-> st, content |-> <<>>] : st \in {"absent", "error"}}
    \cup {[invoked |-> TRUE, state |-> "ok", content |-> join(ls, NL)] :
            ls \in SeqsUpTo(FileLines, MaxFileLines)}

NoFileInput == [invoked |-> FALSE, state |-> "none", content |-> <<>>]

NoResult == [status |-> "none", branch |-> "none", count |-> 0, writes |-> <<>>]

(* ------------------------- the state machine --------------------------- *)
VARIABLES
  platform,     \* process.platform
  env,          \* process.env
  env0,         \* process.env as the operating system provided it
  ran,          \* the loaders called so far, in call order
  shellIn,      \* what execSync met, if loadShellEnv reached it
  shellRes,     \* how loadShellEnv ended
  envPreShell,  \* process.env when loadShellEnv was called
  dotIn,        \* the .env file loadDotEnv met, if it looked for it
  dotRes,       \* how loadDotEnv ended
  envPreDot     \* process.env when loadDotEnv was called

vars == <<platform, env, env0, ran, shellIn, shellRes, envPreShell, dotIn, dotRes, envPreDot>>

Init ==
  /\ platform \in Platforms
  /\ env0 \in InitEnvs
  /\ env = env0
  /\ ran = <<>>
  /\ shellIn = NoShellInput
  /\ shellRes = NoResult
  /\ envPreShell = env0
  /\ dotIn = NoFileInput
  /\ dotRes = NoResult
  /\ envPreDot = env0

\* startup calls loadShellEnv() once
RunShell ==
  /\ "shell" \notin Range(ran)
  /\ \E in \in (IF reachesExec(platform, env) THEN ShellInputs ELSE {NoShellInput}) :
       LET r == loadShellEnv(platform, env, in)
       IN  /\ env' = r.env
           /\ shellIn' = in
           /\ shellRes' = [status |-> r.status, branch |-> r.branch,
                           count |-> r.count, writes |-> r.writes]
  /\ envPreShell' = env
  /\ ran' = Append(ran, "shell")
  /\ UNCHANGED <<platform, env0, dotIn, dotRes, envPreDot>>

\* startup calls loadDotEnv() once
RunDotEnv ==
  /\ "dotenv" \notin Range(ran)
  /\ \E file \in (IF dotEnvEnabled(env) THEN FileInputs ELSE {NoFileInput}) :
       LET r == loadDotEnv(env, file)
       IN  /\ env' = r.env
           /\ dotIn' = file
           /\ dotRes' = [status |-> r.status, branch |-> r.branch,
                         count |-> r.count, writes |-> r.writes]
  /\ envPreDot' = env
  /\ ran' = Append(ran, "dotenv")
  /\ UNCHANGED <<platform, env0, shellIn, shellRes, envPreShell>>

Next == RunShell \/ RunDotEnv

Spec == Init /\ [][Next]_vars

(* ------------------------- vocabulary of the claims -------------------- *)
ShellRan == "shell" \in Range(ran)
DotRan == "dotenv" \in Range(ran)
\* the loader named was the last call, so env is what that call left
ShellLast == ran # <<>> /\ ran[Len(ran)] = "shell"
DotLast == ran # <<>> /\ ran[Len(ran)] = "dotenv"
BothRan == Len(ran) = 2

V_DQ == <<"v", "a", "l", "u", "e", " ", "w", "i", "t", "h", " ", "s", "p", "a", "c", "e", "s">>
V_SQ == <<"a", "'", "b">>
V_SQRAW == <<"'", "a", "'", "b", "'">>
V_MIXRAW == <<"'", "a", "\"">>

\* the marker token occurs somewhere in the text
HasMarker(text) ==
  \E i \in 1..(Len(text) - Len(MARKER) + 1) : SubSeq(text, i, i + Len(MARKER) - 1) = MARKER

\* the lines of the whole remainder of the text after the marker token
\* (no lines when the marker is missing)
LinesAfterMarker(text) ==
  LET at == indexOf(text, MARKER)
  IN  IF at < 0 THEN <<>> ELSE split(substringFrom(text, at + Len(MARKER)), NL)

KeyOf(line) == SubSeq(line, 1, SetMin({i \in 1..Len(line) : line[i] = "="}) - 1)
ValueOf(line) == SubSeq(line, SetMin({i \in 1..Len(line) : line[i] = "="}) + 1, Len(line))

\* the line carries an entry: its first '=' is at a position > 0 and the key
\* before it does not begin with VITE_
CarriesEntry(line) ==
  /\ \E i \in 2..Len(line) : line[i] = "=" /\ \A j \in 1..(i - 1) : line[j] # "="
  /\ ~startsWith(KeyOf(line), VITE_PREFIX)

\* the key/value pairs the text after the marker reports
ReportedPairs(text) ==
  LET ls == LinesAfterMarker(text)
  IN  {<<KeyOf(ls[i]), ValueOf(ls[i])>> : i \in {j \in DOMAIN ls : CarriesEntry(ls[j])}}

\* of these, for every key the pair the shell reported last
FinalPairs(text) ==
  LET ls == LinesAfterMarker(text)
      ok == {j \in DOMAIN ls : CarriesEntry(ls[j])}
  IN  {<<KeyOf(ls[i]), ValueOf(ls[i])>> :
         i \in {j \in ok : \A m \in ok : m > j => KeyOf(ls[m]) # KeyOf(ls[j])}}

\* the entries of a PATH-like list that are not in seen, each kept once, in
\* the order of their first occurrence
RECURSIVE KeepNew(_, _)
KeepNew(entries, seen) ==
  IF entries = <<>> THEN <<>>
  ELSE IF entries[1] \in seen THEN KeepNew(Tail(entries), seen)
  ELSE <<entries[1]>> \o KeepNew(Tail(entries), seen \cup {entries[1]})

\* every variable but PATH is as loadShellEnv found it
OnlyPathChanged ==
  /\ DOMAIN env = DOMAIN envPreShell \cup {K_PATH}
  /\ \A k \in DOMAIN envPreShell : k # K_PATH => env[k] = envPreShell[k]

\* the text the .env line numbered n had after its first '=', trimmed
RawValue(n) ==
  LET t == trim(split(dotIn.content, NL)[n])
  IN  trim(SubSeq(t, SetMin({i \in 1..Len(t) : t[i] = "="}) + 1, Len(t)))

FileLine(n) == split(dotIn.content, NL)[n]

(* ------------------------- claims -------------------------------------- *)

\* C1: loadShellEnv never throws to its caller: whatever the table and the
\* outcome of the shell invocation, the call returns normally, and on a spawn
\* error, a non-zero exit or a timeout it ends in the fallback branch.
C1_NeverThrows ==
  ShellRan =>
    /\ shellRes.status = "returned"
    /\ (shellIn.invoked /\ shellIn.outcome # "ok") => shellRes.branch = "fallback"

C1_Witness ==
  /\ ShellRan
  /\ shellIn.outcome = "timeout"
  /\ shellRes.status = "returned"
  /\ shellRes.branch = "fallback"

\* C2 (as claimed): on a successful shell run the pairs loadShellEnv writes are
\* exactly those of the lines of the whole remainder after the marker token.
C2_WritesExactlyRemainder ==
  (ShellRan /\ shellIn.invoked /\ shellIn.outcome = "ok") =>
    Range(shellRes.writes) = ReportedPairs(shellIn.stdout)

\* C3 (as claimed): every key the shell reports that survives filtering holds
\* the shell-reported value after the call, whatever the table held before.
C3_ShellValueWins ==
  (ShellLast /\ shellIn.invoked /\ shellIn.outcome = "ok") =>
    \A kv \in FinalPairs(shellIn.stdout) : kv[1] \in DOMAIN env /\ env[kv[1]] = kv[2]

\* C4 (as claimed): after both loaders ran the table holds no VITE_ key that
\* was not present before the shell loader ran.
C4_NoNewViteKey ==
  BothRan =>
    \A k \in DOMAIN env : startsWith(k, VITE_PREFIX) => k \in DOMAIN envPreShell

\* C4 (amended): after both loaders ran, every VITE_ key of the table was
\* present before the shell loader ran or was written by loadDotEnv from the
\* .env file; the shell loader adds none.
C4_NoViteKeyFromShell ==
  BothRan =>
    \A k \in DOMAIN env :
      startsWith(k, VITE_PREFIX) =>
        \/ k \in DOMAIN envPreShell
        \/ \E i \in DOMAIN dotRes.writes : dotRes.writes[i].key = k

C4_Witness ==
  /\ BothRan
  /\ shellRes.branch = "parsed"
  /\ indexOf(shellIn.stdout, MARKER \o NL \o L_VITE \o NL) >= 0
  /\ shellRes.count = 0

\* C5 (as claimed): loadDotEnv reads the file only when VITE_DEV_SERVER_URL is
\* absent from the table, and changes nothing when it is present.
C5_RunsOnlyWhenGateAbsent ==
  /\ (DotRan /\ dotIn.invoked) => GATE \notin DOMAIN envPreDot
  /\ (DotLast /\ GATE \in DOMAIN envPreDot) => env = envPreDot

\* C5 (amended): loadDotEnv reads the file only when VITE_DEV_SERVER_URL is
\* present with a non-empty value, and changes nothing when it is absent or
\* empty.
C5_RunsOnlyInDevMode ==
  /\ (DotRan /\ dotIn.invoked) => Truthy(envPreDot, GATE)
  /\ (DotRan /\ ~Truthy(envPreDot, GATE)) => dotRes.writes = <<>>
  /\ (DotLast /\ ~Truthy(envPreDot, GATE)) => env = envPreDot

C5_Witness ==
  /\ DotLast
  /\ Truthy(envPreDot, GATE)
  /\ dotIn.state = "ok"
  /\ dotRes.count > 0
  /\ env # envPreDot

\* C6: loadDotEnv leaves every variable that held a non-empty value before
\* the call as it was, and writes a key only if it was absent or empty at the
\* moment its line was processed.
C6_NonOverride ==
  /\ DotLast =>
       \A k \in DOMAIN envPreDot :
         envPreDot[k] # <<>> => k \in DOMAIN env /\ env[k] = envPreDot[k]
  /\ DotRan => \A i \in DOMAIN dotRes.writes : ~dotRes.writes[i].over

C6_Witness ==
  /\ DotLast
  /\ dotIn.state = "ok"
  /\ K_FOO \in DOMAIN envPreDot
  /\ envPreDot[K_FOO] = V_1
  /\ \E n \in DOMAIN split(dotIn.content, NL) : FileLine(n) = F_FOO
  /\ env[K_FOO] = V_1
  /\ dotRes.count > 0

\* C7 (as claimed): KEY="value with spaces" is stored as value with spaces and
\* KEY='a'b' is stored as the raw string 'a'b'.
C7_QuotesAsClaimed ==
  DotRan =>
    \A i \in DOMAIN dotRes.writes :
      LET w == dotRes.writes[i]
      IN  /\ FileLine(w.line) = F_DQ => w.value = V_DQ
          /\ FileLine(w.line) = F_SQ => w.value = V_SQRAW

\* C7 (amended): a value whose first and last characters are the same quote
\* character (two characters at least) is stored without them, so
\* KEY="value with spaces" is stored as value with spaces and KEY='a'b' as
\* a'b; a value that begins and ends with different quote characters, such as
\* 'a", is stored raw.
C7_QuotesStripped ==
  DotRan =>
    \A i \in DOMAIN dotRes.writes :
      LET w == dotRes.writes[i]
          raw == RawValue(w.line)
      IN  /\ (Len(raw) >= 2 /\ raw[1] = raw[Len(raw)] /\ raw[1] \in {"\"", "'"})
               => w.value = SubSeq(raw, 2, Len(raw) - 1)
          /\ FileLine(w.line) = F_DQ => w.value = V_DQ
          /\ FileLine(w.line) = F_SQ => w.value = V_SQ
          /\ FileLine(w.line) = F_MIX => w.value = V_MIXRAW

C7_Witness ==
  /\ DotRan
  /\ \E i \in DOMAIN dotRes.writes :
       /\ FileLine(dotRes.writes[i].line) = F_SQ
       /\ dotRes.writes[i].key = K_KEY
       /\ dotRes.writes[i].value = V_SQ

\* C8 (as claimed): on a failed shell invocation the PATH written is the seven
\* fallback directories followed by the entries of the pre-existing PATH,
\* duplicates removed, and nothing but PATH changes.
C8_FallbackFromExistingPath ==
  (ShellLast /\ shellRes.branch = "fallback") =>
    LET fb == fallbackPaths(envPreShell)
        pre == IF K_PATH \in DOMAIN envPreShell
               THEN split(envPreShell[K_PATH], COLON) ELSE <<>>
    IN  /\ env[K_PATH] = join(fb \o KeepNew(pre, Range(fb)), COLON)
        /\ OnlyPathChanged

\* C8 (amended): on a failed shell invocation the PATH written is the
\* ':'-joined list of the seven fallback directories, each once and in their
\* declared order, followed by the entries of the pre-existing PATH, or of
\* /usr/bin:/bin:/usr/sbin:/sbin when PATH is unset or empty, in their
\* original order with duplicates (entries equal to a fallback directory
\* included) removed; nothing but PATH changes.
C8_FallbackPath ==
  (ShellLast /\ shellRes.branch = "fallback") =>
    LET fb == fallbackPaths(envPreShell)
        pre == IF K_PATH \in DOMAIN envPreShell /\ envPreShell[K_PATH] # <<>>
               THEN split(envPreShell[K_PATH], COLON) ELSE split(DEFAULT_PATH, COLON)
        all == fb \o KeepNew(pre, Range(fb))
    IN  /\ env[K_PATH] = join(all, COLON)
        /\ \A d \in Range(fb) : Cardinality({i \in DOMAIN all : all[i] = d}) = 1
        /\ \A i, j \in DOMAIN all : i # j => all[i] # all[j]
        /\ OnlyPathChanged

C8_Witness ==
  /\ ShellLast
  /\ shellRes.branch = "fallback"
  /\ K_PATH \in DOMAIN envPreShell
  /\ envPreShell[K_PATH] = P_DUP
  /\ K_HOME \in DOMAIN envPreShell

\* C9: when the shell succeeds but prints no marker token, loadShellEnv
\* returns normally, writes nothing (count 0) and leaves the table as it was.
C9_NoMarkerNoChange ==
  (ShellLast /\ shellIn.invoked /\ shellIn.outcome = "ok" /\ ~HasMarker(shellIn.stdout)) =>
    /\ shellRes.status = "returned"
    /\ shellRes.branch = "parsed"
    /\ shellRes.count = 0
    /\ shellRes.writes = <<>>
    /\ env = envPreShell

C9_Witness ==
  /\ ShellLast
  /\ shellIn.invoked
  /\ shellIn.outcome = "ok"
  /\ ~HasMarker(shellIn.stdout)
  /\ indexOf(shellIn.stdout, L_FOO \o NL) >= 0
  /\ env = envPreShell

\* the inputs a loader meets when called on table e in the other call order:
\* those it met in this run if it met any, else any it may meet
ShellChoices(e) ==
  IF shellIn.invoked THEN {shellIn}
  ELSE IF reachesExec(platform, e) THEN ShellInputs ELSE {NoShellInput}

FileChoices(e) ==
  IF dotIn.invoked THEN {dotIn}
  ELSE IF dotEnvEnabled(e) THEN FileInputs ELSE {NoFileInput}

\* C10: running loadShellEnv then loadDotEnv leaves the same table as running
\* loadDotEnv then loadShellEnv on the same inputs, and neither loader changes
\* whether VITE_DEV_SERVER_URL is in the table.
C10_OrderIrrelevant ==
  /\ (GATE \in DOMAIN env) = (GATE \in DOMAIN env0)
  /\ (BothRan /\ ran[1] = "shell") =>
       \A file \in FileChoices(env0) :
         LET d == loadDotEnv(env0, file).env
         IN  \A in \in ShellChoices(d) : env = loadShellEnv(platform, d, in).env
  /\ (BothRan /\ ran[1] = "dotenv") =>
       \A in \in ShellChoices(env0) :
         LET sh == loadShellEnv(platform, env0, in).env
         IN  \A file \in FileChoices(sh) : env = loadDotEnv(sh, file).env

C10_Witness ==
  /\ BothRan
  /\ ran[1] = "dotenv"
  /\ shellRes.branch = "parsed"
  /\ shellRes.count > 0
  /\ env # env0

====
